---------------------------- MODULE Spec2Model ----------------------------
(***************************************************************************)
(* TradeSense: the risk gate (risk_management.py), the position sizer and  *)
(* the order executor of the trading engine (trading.py).                  *)
(*                                                                         *)
(* Money is an integer number of account-currency units.  Percentages and  *)
(* lot sizes are exact rationals <<n, d>> with d > 0; Python computes them *)
(* in binary floating point, which differs from the exact value only in    *)
(* the last bits.                                                          *)
(***************************************************************************)
EXTENDS Integers, Sequences, FiniteSets, TLC

VARIABLES
    daily_stats,    \* RiskManager.daily_stats
    today,          \* datetime.date.today(), as a day number
    config,         \* ConfigManager.config (the settings the core reads)
    positions,      \* number of positions open at the broker (mt5.positions_total())
    running,        \* TradingEngine.running
    last,           \* the most recent call of the RiskManager API: what it read and
                    \* returned, and whether an order was submitted since
    risk_calls,     \* calls of the adaptive-risk methods made so far
    lot,            \* the most recent calculate_lot_size call: inputs and result
    pc,             \* position of every thread that can run the order executor
    trade_lock,     \* TradingEngine.trade_lock: "free", or the thread that holds it
    session_data,   \* TradingEngine.session_data (total_trades, trades_log)
    last_trade_time,\* TradingEngine.last_trade_time: symbol -> time of the last trade
    clock,          \* time.time(), in seconds since the engine was constructed
    signal,         \* the signal every thread is handling or handled last, with
                    \* the locals of _process_signal and _execute_trade
    pending,        \* the signals of the iteration not yet processed
    position,       \* the position the broker holds for the trailing stop: type,
                    \* magic, sl, tp and the stop it was opened with
    tick,           \* mt5.symbol_info_tick: bid and ask
    indicators,     \* rsi, ema_20 and ema_50 on the last three bars of the frame
    emitted,        \* what _get_technical_signals returned on the latest bar and
                    \* on the frame without its latest bar
    loops,          \* position of every trading-loop thread start() has created,
                    \* and the signals its iteration has yet to process
    conn,           \* TradingEngine.connected and what the last connect() did
    session,        \* the SessionManager's enabled flags, the UTC time it is asked
                    \* at and what it answered
    notifier        \* the TelegramBot's message queue and what the worker took

vars == <<daily_stats, today, config, positions, running, last, risk_calls, lot, pc,
          trade_lock, session_data, last_trade_time, clock, signal, pending,
          position, tick, indicators, emitted, loops, conn, session, notifier>>

riskVars   == <<daily_stats, today, config, positions, running, last, risk_calls>>
engineVars == <<pc, trade_lock, session_data, last_trade_time, clock, signal, pending>>
sideVars   == <<position, tick, indicators, emitted, loops, conn, session, notifier>>
moreVars   == <<loops, conn, session, notifier>>

-----------------------------------------------------------------------------
(* Bounds of the model *)

\* trades recorded per trading day
MaxTrades == 3
\* calendar days that pass after construction
MaxDay == 1
\* positions the broker holds at once
MaxOpen == 1
\* calls of adjust_risk_after_loss and restore_normal_risk
MaxRiskCalls == 3
\* orders the broker executes; it rejects every later one
MaxOrders == 2
\* seconds the clock runs
MaxClock == 60

-----------------------------------------------------------------------------
(* Exact rationals *)

RECURSIVE Gcd(_, _)
Gcd(a, b) == IF b = 0 THEN a ELSE Gcd(b, a % b)

Abs(x) == IF x < 0 THEN -x ELSE x

\* n/d in lowest terms with a positive denominator (d # 0)
Rat(n, d) ==
    LET g == Gcd(Abs(n), Abs(d))
        s == IF d < 0 THEN -1 ELSE 1
    IN  <<(s * n) \div g, (s * d) \div g>>

RatOfInt(n) == <<n, 1>>
RatLT(x, y) == x[1] * y[2] < y[1] * x[2]
RatLE(x, y) == x[1] * y[2] <= y[1] * x[2]
RatGT(x, y) == RatLT(y, x)
RatGE(x, y) == RatLE(y, x)
RatEQ(x, y) == x[1] * y[2] = y[1] * x[2]
RatMul(x, y) == Rat(x[1] * y[1], x[2] * y[2])
RatMax(x, y) == IF RatLT(x, y) THEN y ELSE x
RatMin(x, y) == IF RatLT(y, x) THEN y ELSE x

\* Python's round() of a float whose exact value is x: the nearest integer.
\* When x lies exactly halfway, the float that stands for it lies a last bit
\* above or below (0.15 / 0.1 is 1.4999999999999998) or exactly on the tie,
\* which round() sends to the even neighbour; tie picks the outcome.
Ties == {"down", "up"}
RoundNearest(x, tie) ==
    LET f == x[1] \div x[2]              \* floor, since x[2] > 0
        r == 2 * (x[1] - f * x[2])       \* twice the fractional part, times x[2]
    IN  IF r < x[2] THEN f
        ELSE IF r > x[2] THEN f + 1
        ELSE IF tie = "down" THEN f ELSE f + 1

\* utils.safe_divide(a, b) on rationals: the default 0.0 when b == 0
safe_divide(a, b) == IF b[1] = 0 THEN <<0, 1>> ELSE Rat(a[1] * b[2], a[2] * b[1])


-----------------------------------------------------------------------------
(* The broker account (mt5.account_info()) *)

\* mt5.account_info() returned None
NoAccount ==
    [ok |-> FALSE, balance |-> 0, equity |-> 0, margin |-> 0,
     margin_free |-> 0, margin_level |-> 0]

Account(b, e, m) ==
    [ok |-> TRUE, balance |-> b, equity |-> e, margin |-> m.margin,
     margin_free |-> m.margin_free, margin_level |-> m.margin_level]

\* used margin, free margin and margin level (percent) of an account that passes
\* the margin check
HealthyMargin == [margin |-> 1000, margin_free |-> 9000, margin_level |-> 1000]

\* an account below the margin-level floor, one short of free margin, and one
\* with no position open, for which the terminal reports a margin level of 0
WeakMargins ==
    { [margin |-> 1000, margin_free |-> 9000, margin_level |-> 150],
      [margin |-> 1000, margin_free |-> 500,  margin_level |-> 1000],
      [margin |-> 0,    margin_free |-> 9000, margin_level |-> 0] }

\* balances and equities the broker reports
Balances == {9400, 10000}
Equities == {9400, 10000}

\* an account that passes every check of the risk gate on its first read
GoodAccount == Account(10000, 10000, HealthyMargin)

\* what one mt5.account_info() call can return: nothing, every balance and
\* equity on healthy margin, and every weak margin on a full balance
AccountReads ==
    {NoAccount}
    \cup {Account(b, e, HealthyMargin) : b \in Balances, e \in Equities}
    \cup {Account(10000, 10000, m) : m \in WeakMargins}

\* reads of callers that use the balance only
BalanceReads(bs) == {NoAccount} \cup {Account(b, b, HealthyMargin) : b \in bs}

-----------------------------------------------------------------------------
(* RiskManager (risk_management.py) *)

\* the checks of can_trade that can raise
Checks == {"daily_reset", "daily_loss", "profit_target", "drawdown",
           "positions", "loss_streak", "margin"}

\* RiskManager.__init__: daily_stats (current_profit and max_drawdown_today are
\* written but never read by a decision and are left out)
InitDailyStats ==
    [start_balance |-> 0, trades_today |-> 0, winning_trades |-> 0,
     losing_trades |-> 0, consecutive_losses |-> 0, last_reset |-> 0]

\* _check_daily_reset that carries the losing streak over to the new day
_check_daily_reset_keeps_streak(ds, day, acct, raises) ==
    IF raises THEN ds
    ELSE IF ds.last_reset < day
    THEN [ds EXCEPT !.start_balance = IF acct.ok THEN acct.balance ELSE @,
                    !.trades_today = 0, !.winning_trades = 0,
                    !.losing_trades = 0, !.last_reset = day]
    ELSE ds

\* RiskManager._check_daily_reset; an exception is logged and swallowed
_check_daily_reset(ds, day, acct, raises) ==
    IF raises THEN ds
    ELSE IF ds.last_reset < day
    THEN [ds EXCEPT !.start_balance = IF acct.ok THEN acct.balance ELSE @,
                    !.trades_today = 0,
                    !.winning_trades = 0,
                    !.losing_trades = 0,
                    !.consecutive_losses = 0,
                    !.last_reset = day]
    ELSE ds

\* the first-call bootstrap of _check_daily_loss_limit
SeedStartBalance(ds, acct) ==
    IF ds.start_balance = 0 THEN [ds EXCEPT !.start_balance = acct.balance] ELSE ds

\* current_loss_pct of _check_daily_loss_limit and loss_pct of
\* _check_emergency_conditions
LossPct(start_balance, balance) ==
    safe_divide(RatOfInt(start_balance - balance), RatOfInt(start_balance * 100))

\* RiskManager._check_daily_loss_limit on the seeded statistics
_check_daily_loss_limit(ds, acct, cfg, raises) ==
    IF raises THEN FALSE
    ELSE ~ RatGT(LossPct(ds.start_balance, acct.balance), cfg.max_daily_loss)

\* RiskManager._check_daily_profit_target: the target is logged, never enforced
_check_daily_profit_target(ds, acct, cfg, raises) == TRUE

\* current_drawdown of _check_max_drawdown
DrawdownPct(start_balance, equity) ==
    LET peak_balance == IF start_balance > equity THEN start_balance ELSE equity
    IN  safe_divide(RatOfInt(peak_balance - equity), RatOfInt(peak_balance * 100))

\* RiskManager._check_max_drawdown
_check_max_drawdown(ds, acct, cfg, raises) ==
    IF raises THEN FALSE
    ELSE IF ~ cfg.auto_stop_drawdown THEN TRUE
    ELSE IF ds.start_balance = 0 THEN TRUE
    ELSE ~ RatGT(DrawdownPct(ds.start_balance, acct.equity), cfg.max_drawdown)

\* _check_position_limits whose handler lets the trade pass, as the handler of
\* _check_daily_profit_target does
_check_position_limits_fail_open(npos, cfg, raises) ==
    IF raises THEN TRUE ELSE ~ (npos >= cfg.max_positions)

\* RiskManager._check_position_limits
_check_position_limits(npos, cfg, raises) ==
    IF raises THEN FALSE ELSE ~ (npos >= cfg.max_positions)

\* _check_loss_streak that lets the streak reach the limit before it blocks
_check_loss_streak_off_by_one(ds, cfg, raises) ==
    IF raises THEN FALSE ELSE ~ (ds.consecutive_losses > cfg.max_loss_streak)

\* RiskManager._check_loss_streak
_check_loss_streak(ds, cfg, raises) ==
    IF raises THEN FALSE ELSE ~ (ds.consecutive_losses >= cfg.max_loss_streak)

\* min_margin_level of _check_margin_requirements, percent
MinMarginLevel == 200

\* _check_margin_requirements that looks at the margin level only
_check_margin_requirements_level_only(acct, raises) ==
    IF raises THEN FALSE
    ELSE LET margin_level == IF acct.margin > 0 THEN acct.margin_level ELSE 999999
         IN  ~ (margin_level < MinMarginLevel)

\* RiskManager._check_margin_requirements; min_free_margin is balance * 0.1
_check_margin_requirements(acct, raises) ==
    IF raises THEN FALSE
    ELSE LET margin_level == IF acct.margin > 0 THEN acct.margin_level ELSE 999999
         IN  /\ ~ (margin_level < MinMarginLevel)
             /\ ~ (10 * acct.margin_free < acct.balance)

\* RiskManager.can_trade.  racct is the account read of the daily reset, acct the
\* read of can_trade itself, npos mt5.positions_total(), raising the checks that
\* raise when they run.  Returns the decision, the statistics as the call leaves
\* them and the checks that ran and raised.  Every check catches its own exception, so
\* the handler of can_trade itself is never entered.
can_trade(ds, day, racct, acct, npos, cfg, raising) ==
    LET R(c)  == c \in raising
        Rs(c) == IF c \in raising THEN {c} ELSE {}
        ds1   == _check_daily_reset(ds, day, racct, R("daily_reset"))
        ds2   == SeedStartBalance(ds1, acct)
        r0    == Rs("daily_reset")
        r1    == r0 \cup Rs("daily_loss")
        r2    == r1 \cup Rs("profit_target")
        r3    == r2 \cup Rs("drawdown")
        r4    == r3 \cup Rs("positions")
        r5    == r4 \cup Rs("loss_streak")
        r6    == r5 \cup Rs("margin")
        Blocked(d, rs) == [ret |-> FALSE, ds |-> d, raised |-> rs]
    IN  IF ~ acct.ok
          THEN Blocked(ds1, r0)
        ELSE IF ~ _check_daily_loss_limit(ds2, acct, cfg, R("daily_loss"))
          THEN Blocked(ds2, r1)
        ELSE IF ~ _check_daily_profit_target(ds2, acct, cfg, R("profit_target"))
          THEN Blocked(ds2, r2)
        ELSE IF ~ _check_max_drawdown(ds2, acct, cfg, R("drawdown"))
          THEN Blocked(ds2, r3)
        ELSE IF ~ _check_position_limits(npos, cfg, R("positions"))
          THEN Blocked(ds2, r4)
        ELSE IF ~ _check_loss_streak(ds2, cfg, R("loss_streak"))
          THEN Blocked(ds2, r5)
        ELSE IF ~ _check_margin_requirements(acct, R("margin"))
          THEN Blocked(ds2, r6)
        ELSE [ret |-> TRUE, ds |-> ds2, raised |-> r6]

\* record_trade_result with a break-even trade counted as neither a win nor a loss
record_trade_result_strict_loss(ds, profit) ==
    LET counted == [ds EXCEPT !.trades_today = @ + 1]
    IN  IF profit > 0
        THEN [counted EXCEPT !.winning_trades = @ + 1, !.consecutive_losses = 0]
        ELSE IF profit < 0
        THEN [counted EXCEPT !.losing_trades = @ + 1, !.consecutive_losses = @ + 1]
        ELSE counted

\* RiskManager.record_trade_result: the update of daily_stats
record_trade_result(ds, profit) ==
    LET counted == [ds EXCEPT !.trades_today = @ + 1]
    IN  IF profit > 0
        THEN [counted EXCEPT !.winning_trades = @ + 1, !.consecutive_losses = 0]
        ELSE [counted EXCEPT !.losing_trades = @ + 1, !.consecutive_losses = @ + 1]

\* RiskManager._check_emergency_conditions: whether emergency_stop() is called
_check_emergency_conditions(ds, acct, cfg) ==
    /\ acct.ok
    /\ ds.start_balance > 0
    /\ RatGT(LossPct(ds.start_balance, acct.balance), cfg.emergency_stop_threshold)

\* utils.emergency_stop: the open positions and the running flag it leaves.  It
\* logs every open position ("Close position logic here") and closes none, and
\* it has no reference to the engine.
emergency_stop(npos, run) == [positions |-> npos, running |-> run]

\* RiskManager.adjust_risk_after_loss: the risk_percent it leaves configured
adjust_risk_after_loss(ds, cfg) ==
    IF ds.consecutive_losses >= 2
    THEN LET current_risk == cfg.risk_percent
             reduced_risk == RatMul(current_risk, <<8, 10>>)
         IN  [cfg EXCEPT !.risk_percent = RatMax(reduced_risk, <<2, 10>>)]
    ELSE cfg

\* RiskManager.restore_normal_risk: the risk_percent it leaves configured
restore_normal_risk(cfg) ==
    LET current_risk == cfg.risk_percent
        normal_risk == <<1, 1>>
    IN  IF RatLT(current_risk, normal_risk)
        THEN [cfg EXCEPT !.risk_percent =
                             RatMin(RatMul(current_risk, <<11, 10>>), normal_risk)]
        ELSE cfg

-----------------------------------------------------------------------------
(* Position sizer: RiskManager.calculate_lot_size *)

\* mt5.symbol_info(symbol) returned None
NoSymbol ==
    [ok |-> FALSE, jpy |-> FALSE, point |-> <<0, 1>>, volume_min |-> <<0, 1>>,
     volume_max |-> <<0, 1>>, volume_step |-> <<1, 1>>, trade_contract_size |-> 0]

\* jpy is the test 'JPY' in symbol
Instrument(jpy, point, vmin, vmax, vstep, contract) ==
    [ok |-> TRUE, jpy |-> jpy, point |-> point, volume_min |-> vmin,
     volume_max |-> vmax, volume_step |-> vstep, trade_contract_size |-> contract]

\* The instruments of mock_mt5._init_symbols (volume 0.01 .. 100 in steps of
\* 0.01, contract size 100000), instruments a broker offers with a coarser volume
\* grid (US30), a lower maximum and no contract size (BTCUSD) and a finer volume
\* grid (ETHUSD), and a symbol the terminal does not know.
symbol_info(symbol) ==
    CASE symbol = "XAUUSD" -> Instrument(FALSE, <<1, 100>>, <<1, 100>>, <<100, 1>>, <<1, 100>>, 100000)
      [] symbol = "EURUSD" -> Instrument(FALSE, <<1, 100000>>, <<1, 100>>, <<100, 1>>, <<1, 100>>, 100000)
      [] symbol = "USDJPY" -> Instrument(TRUE, <<1, 1000>>, <<1, 100>>, <<100, 1>>, <<1, 100>>, 100000)
      [] symbol = "US30"   -> Instrument(FALSE, <<1, 10>>, <<1, 10>>, <<50, 1>>, <<1, 10>>, 1000)
      [] symbol = "BTCUSD" -> Instrument(FALSE, <<1, 100>>, <<1, 100>>, <<1, 1>>, <<1, 100>>, 0)
      [] symbol = "ETHUSD" -> Instrument(FALSE, <<1, 100>>, <<1, 1000>>, <<10, 1>>, <<1, 1000>>, 100000)
      [] OTHER -> NoSymbol

Symbols == {"XAUUSD", "EURUSD", "USDJPY", "US30", "BTCUSD", "ETHUSD", "UNKNOWN"}

\* utils.calculate_pip_value(symbol, 1.0)
calculate_pip_value(symbol) ==
    LET info == symbol_info(symbol)
        pip_size == IF info.jpy THEN <<1, 100>> ELSE <<1, 10000>>
    IN  IF ~ info.ok THEN <<0, 1>>
        ELSE RatMul(pip_size, RatOfInt(info.trade_contract_size))

\* sl_pips of _calculate_risk_based_lot: the stop-loss distance in pips
StopLossPips(cfg, info, price) ==
    LET sl_pips ==
            IF cfg.sl_unit = "pips" THEN cfg.sl_value
            ELSE IF cfg.sl_unit = "percent"
            THEN IF price > 0
                 THEN safe_divide(RatMul(RatOfInt(price), RatMul(cfg.sl_value, <<1, 100>>)),
                                  RatMul(info.point, <<10, 1>>))
                 ELSE <<25, 1>>
            ELSE <<25, 1>>
    IN  IF RatLE(sl_pips, <<0, 1>>) THEN <<25, 1>> ELSE sl_pips

\* _calculate_risk_based_lot that divides the risk amount by the stop-loss
\* distance only
_calculate_risk_based_lot_no_pip_value(risk_amount, symbol, info, price, cfg) ==
    safe_divide(risk_amount, StopLossPips(cfg, info, price))

\* RiskManager._calculate_risk_based_lot
_calculate_risk_based_lot(risk_amount, symbol, info, price, cfg) ==
    LET pv        == calculate_pip_value(symbol)
        pip_value == IF RatLE(pv, <<0, 1>>) THEN <<10, 1>> ELSE pv
    IN  safe_divide(risk_amount, RatMul(StopLossPips(cfg, info, price), pip_value))

\* round(x, 2)
Round2(x, tie) == Rat(RoundNearest(RatMul(x, <<100, 1>>), tie), 100)

\* RiskManager._apply_lot_limits; ties[1] decides a tie of the rounding to the
\* step and ties[2] a tie of the rounding to two decimals
_apply_lot_limits(lot_size, info, acct, ties) ==
    LET min_lot  == info.volume_min
        max_lot  == info.volume_max
        lot_step == info.volume_step
        floored  == RatMax(lot_size, min_lot)
        max_lot_by_balance == safe_divide(RatMul(RatOfInt(acct.balance), <<1, 10>>), <<1000, 1>>)
        capped   == RatMin(RatMin(floored, max_lot_by_balance), max_lot)
        stepped  == RatMul(RatOfInt(RoundNearest(safe_divide(capped, lot_step), ties[1])),
                           lot_step)
    IN  Round2(RatMax(stepped, min_lot), ties[2])

\* RiskManager.calculate_lot_size
calculate_lot_size(symbol, price, acct, cfg, ties) ==
    LET info == symbol_info(symbol)
        risk_amount == RatMul(RatOfInt(acct.balance), RatMul(cfg.risk_percent, <<1, 100>>))
        lot_size == IF cfg.auto_lot
                    THEN _calculate_risk_based_lot(risk_amount, symbol, info, price, cfg)
                    ELSE cfg.lot_size
    IN  IF ~ acct.ok THEN <<1, 100>>
        ELSE IF ~ info.ok THEN <<1, 100>>
        ELSE _apply_lot_limits(lot_size, info, acct, ties)

-----------------------------------------------------------------------------
(* Configuration (config.py, _get_default_config) *)

\* The defaults, with max_positions lowered from 10 so that the position limit
\* is reached within MaxOpen positions.
DefaultConfig ==
    [symbol |-> "XAUUSD", auto_lot |-> TRUE, lot_size |-> <<1, 100>>,
     risk_percent |-> <<1, 1>>, sl_value |-> <<25, 1>>, sl_unit |-> "pips",
     max_daily_loss |-> <<5, 1>>, max_positions |-> 1, max_loss_streak |-> 3,
     max_drawdown |-> <<5, 1>>, auto_stop_drawdown |-> TRUE,
     emergency_stop_threshold |-> <<20, 1>>, ai_confidence |-> <<3, 4>>,
     trailing_stop |-> FALSE, trailing_distance |-> <<15, 1>>]

\* the settings the risk gate is checked with
GateConfigs == {[DefaultConfig EXCEPT !.auto_stop_drawdown = a] : a \in BOOLEAN}

-----------------------------------------------------------------------------
(* State after construction *)

\* no RiskManager call has been made yet
NoCall ==
    [op |-> "none", ret |-> FALSE, acct |-> NoAccount, raised |-> {},
     emergency |-> FALSE, profit |-> 0, risk_before |-> <<0, 1>>,
     reset_acct |-> NoAccount, acted |-> FALSE]

\* calculate_lot_size has not been called yet
NoLot ==
    [op |-> "none", symbol |-> "UNKNOWN", price |-> 0, acct |-> NoAccount,
     result |-> <<0, 1>>]

Threads == {"loop", "manual"}

\* no signal handled yet
NoSignal ==
    [symbol |-> "", confidence |-> <<0, 1>>, price |-> 0, now |-> 0,
     lot_size |-> <<0, 1>>, sends |-> 0, retcode |-> "none", total_trades |-> 0, result |-> "none"]

InitEngine ==
    /\ pc = [t \in Threads |-> "idle"]
    /\ trade_lock = "free"
    /\ session_data = [total_trades |-> 0, trades_log |-> <<>>]
    /\ last_trade_time = <<>>
    /\ clock = 0
    /\ signal = [t \in Threads |-> NoSignal]
    /\ pending = <<>>

\* no position is looked after and no frame was analysed
NoPosition == [ok |-> FALSE, type |-> "BUY", magic |-> 0, sl |-> 0, tp |-> 0, sl_open |-> 0]
NoTick == [bid |-> 0, ask |-> 0]
NoIndicators == [rsi |-> <<>>, ema_20 |-> <<>>, ema_50 |-> <<>>]
NoEmitted == [op |-> "none", latest |-> <<>>, prior |-> <<>>]

\* no loop thread was started, the engine is not connected, the session manager
\* was not asked and the notifier holds no message
NoLoops == <<>>
NoConnect == [connected |-> FALSE, op |-> "none", ret |-> FALSE, rounds |-> 0]
NoSession == [op |-> "none"]
NoNotifier == [op |-> "none"]

InitMore ==
    /\ loops = NoLoops
    /\ conn = NoConnect
    /\ session = NoSession
    /\ notifier = NoNotifier

InitSide ==
    /\ position = NoPosition
    /\ tick = NoTick
    /\ indicators = NoIndicators
    /\ emitted = NoEmitted
    /\ InitMore

InitRisk ==
    /\ daily_stats = InitDailyStats
    /\ today = 0
    /\ positions = 0
    /\ running = FALSE
    /\ last = NoCall
    /\ risk_calls = 0

Init ==
    /\ InitRisk
    /\ config \in GateConfigs
    /\ lot = NoLot
    /\ InitEngine
    /\ InitSide

-----------------------------------------------------------------------------
(* Operations of the risk gate *)

\* the account reads of the daily reset, which uses the balance only
ResetReads == BalanceReads(Balances)

\* One account read and the checks that raise in one can_trade call: every
\* account with no check raising, each single check raising on an account that
\* passes every check, and the reset raising when the account is missing (no
\* other check runs then).
GateInputs ==
    {[acct |-> a, raising |-> {}] : a \in AccountReads}
    \cup {[acct |-> GoodAccount, raising |-> {c}] : c \in Checks}
    \cup {[acct |-> NoAccount, raising |-> {"daily_reset"}]}

\* a caller evaluates can_trade()
CanTrade ==
    \E in \in GateInputs :
    \E racct \in IF daily_stats.last_reset < today THEN ResetReads ELSE {in.acct} :
        LET r == can_trade(daily_stats, today, racct, in.acct, positions, config, in.raising)
        IN  /\ daily_stats' = r.ds
            /\ last' = [op |-> "can_trade", ret |-> r.ret, acct |-> in.acct,
                        raised |-> r.raised, emergency |-> FALSE, profit |-> 0,
                        risk_before |-> config.risk_percent,
                        reset_acct |-> IF daily_stats.last_reset < today
                                       THEN racct ELSE NoAccount,
                        acted |-> FALSE]
            /\ UNCHANGED <<today, config, positions, running, risk_calls, lot, engineVars,
                           sideVars>>

\* realised profit of a closed trade
Profits == {-50, 0, 50}

\* balances the broker reports when a trade result is recorded
RecordBalances == {7000, 10000}

\* a caller records the result of a closed trade: record_trade_result with its
\* emergency check
RecordTradeResult ==
    \E profit \in Profits, acct \in BalanceReads(RecordBalances) :
        LET ds == record_trade_result(daily_stats, profit)
            emergency == _check_emergency_conditions(ds, acct, config)
            after == IF emergency THEN emergency_stop(positions, running)
                     ELSE [positions |-> positions, running |-> running]
        IN  /\ daily_stats.trades_today < MaxTrades
            /\ daily_stats' = ds
            /\ positions' = after.positions
            /\ running' = after.running
            /\ last' = [op |-> "record_trade_result", ret |-> FALSE, acct |-> acct,
                        raised |-> {}, emergency |-> emergency, profit |-> profit,
                        risk_before |-> config.risk_percent,
                        reset_acct |-> NoAccount, acted |-> FALSE]
            /\ UNCHANGED <<today, config, risk_calls, lot, engineVars,
                           sideVars>>

\* midnight passes
NewDay ==
    /\ today < MaxDay
    /\ today' = today + 1
    /\ UNCHANGED <<daily_stats, config, positions, running, last, risk_calls, lot,
                 engineVars,
                   sideVars>>

\* the broker opens or closes a position (a manual order in the terminal, a stop
\* or a target that is hit)
BrokerUpdate ==
    \E n \in 0..MaxOpen :
        /\ n # positions
        /\ positions' = n
        /\ UNCHANGED <<daily_stats, today, config, running, last, risk_calls, lot,
                     engineVars,
                       sideVars>>

Next ==
    \/ CanTrade
    \/ RecordTradeResult
    \/ NewDay
    \/ BrokerUpdate

Spec == Init /\ [][Next]_vars

-----------------------------------------------------------------------------
(* The position sizer as a function of the configuration, the instrument and *)
(* the account                                                               *)

\* sizing settings: risk_percent within the validated range 0.1 .. 50, stop-loss
\* values and units, automatic and manual sizing
LotConfigs ==
    {[DefaultConfig EXCEPT !.risk_percent = rp, !.sl_value = sv, !.sl_unit = su,
                           !.auto_lot = al, !.lot_size = ls] :
        rp \in {<<1, 10>>, <<1, 1>>, <<50, 1>>},
        sv \in {<<1, 1>>, <<25, 1>>},
        su \in {"pips", "percent", "price"},
        al \in BOOLEAN,
        ls \in {<<1, 100>>, <<5, 1>>}}

\* account balances at the time of sizing
LotBalances == {-100, 0, 40, 1250, 10000, 600000}

\* reference prices a signal carries (0: to be filled in at execution)
SignalPrices == {0, 2650}

\* the sizing calls a caller can make
LotRequests ==
    {[op |-> "request", symbol |-> symbol, price |-> price, acct |-> acct,
      result |-> <<0, 1>>] :
        symbol \in Symbols, price \in SignalPrices, acct \in BalanceReads(LotBalances)}

InitLot ==
    /\ InitRisk
    /\ config \in LotConfigs
    /\ lot \in LotRequests
    /\ InitEngine
    /\ InitSide

\* the caller's calculate_lot_size call returns
CalculateLotSize ==
    \E ties \in Ties \X Ties :
        /\ lot.op = "request"
        /\ lot' = [lot EXCEPT !.op = "calculate_lot_size",
                              !.result = calculate_lot_size(lot.symbol, lot.price,
                                                            lot.acct, config, ties)]
        /\ UNCHANGED <<riskVars, engineVars,
                       sideVars>>

NextLot == CalculateLotSize

SpecLot == InitLot /\ [][NextLot]_vars

-----------------------------------------------------------------------------
(* Trade recording together with the adaptive-risk methods of the RiskManager *)

\* configured risk_percent within the validated range 0.1 .. 50
AdaptConfigs ==
    {[DefaultConfig EXCEPT !.risk_percent = rp] : rp \in {<<1, 10>>, <<4, 5>>, <<1, 1>>}}

InitAdapt ==
    /\ InitRisk
    /\ config \in AdaptConfigs
    /\ lot = NoLot
    /\ InitEngine
    /\ InitSide

\* a caller invokes adjust_risk_after_loss()
AdjustRiskAfterLoss ==
    /\ risk_calls < MaxRiskCalls
    /\ risk_calls' = risk_calls + 1
    /\ config' = adjust_risk_after_loss(daily_stats, config)
    /\ last' = [op |-> "adjust_risk_after_loss", ret |-> FALSE, acct |-> NoAccount,
                raised |-> {}, emergency |-> FALSE, profit |-> 0,
                risk_before |-> config.risk_percent,
                        reset_acct |-> NoAccount, acted |-> FALSE]
    /\ UNCHANGED <<daily_stats, today, positions, running, lot, engineVars,
                   sideVars>>

\* a caller invokes restore_normal_risk()
RestoreNormalRisk ==
    /\ risk_calls < MaxRiskCalls
    /\ risk_calls' = risk_calls + 1
    /\ config' = restore_normal_risk(config)
    /\ last' = [op |-> "restore_normal_risk", ret |-> FALSE, acct |-> NoAccount,
                raised |-> {}, emergency |-> FALSE, profit |-> 0,
                risk_before |-> config.risk_percent,
                        reset_acct |-> NoAccount, acted |-> FALSE]
    /\ UNCHANGED <<daily_stats, today, positions, running, lot, engineVars,
                   sideVars>>

NextAdapt ==
    \/ RecordTradeResult
    \/ AdjustRiskAfterLoss
    \/ RestoreNormalRisk

SpecAdapt == InitAdapt /\ [][NextAdapt]_vars

-----------------------------------------------------------------------------
(* The trading engine: the loop thread started by start() and the threads   *)
(* the GUI starts for manual orders.  A thread is at "exec" when it has     *)
(* entered _execute_trade and at "send" while its request is with the       *)
(* broker (mt5.order_send has been called and has not returned).            *)

ManualThreads == Threads \ {"loop"}

\* account reads of _should_trade's call of can_trade()
EngineReads == {GoodAccount}

\* account reads of _execute_trade's call of calculate_lot_size()
SizerReads == {GoodAccount}

\* the symbol a manual order names (the symbol field of the GUI)
ManualSymbols == {"XAUUSD", "UNKNOWN"}

\* signal['price']: the last close for a technical signal, 0 for a signal of
\* the classifier and for a manual one
SignalPrice(t) == signal[t].price

\* confidence of a manual signal
ManualConfidence == <<1, 1>>

\* the technical signal of a strategy on the configured symbol
technical_signal(symbol, confidence) ==
    [symbol |-> symbol, confidence |-> confidence, price |-> 2650]

\* the signal of AISignalGenerator._ensemble_vote: always on XAUUSD, price 0
ai_signal(confidence) ==
    [symbol |-> "XAUUSD", confidence |-> confidence, price |-> 0]

\* the signals one iteration of the loop collects on symbol: the technical
\* signal of the strategy (confidence 0.8 for Scalping, 0.75 for Intraday, 0.7
\* for HFT), then the signal of the classifier when it has one
SignalBatches(symbol) ==
    {<< technical_signal(symbol, <<8, 10>>), ai_signal(<<8, 10>>) >>,
     << technical_signal(symbol, <<3, 4>>) >>,
     << technical_signal(symbol, <<7, 10>>), ai_signal(<<8, 10>>) >>}

\* min_time_between_trades of _process_signal, in seconds
MinTimeBetweenTrades == 60

\* seconds that pass between two readings of the clock
Elapsed == {60}

\* _process_signal that does not look at the confidence of the signal
_process_signal_any_confidence(sig, run, cfg, ltt, now) ==
    /\ run
    /\ ~ (/\ sig.symbol \in DOMAIN ltt
          /\ now - ltt[sig.symbol] < MinTimeBetweenTrades)

\* TradingEngine._process_signal up to the trade lock: TRUE when the signal
\* goes on to _execute_trade, FALSE when the method returns early
_process_signal(sig, run, cfg, ltt, now) ==
    /\ run
    /\ ~ RatLT(sig.confidence, cfg.ai_confidence)
    /\ ~ (/\ sig.symbol \in DOMAIN ltt
          /\ now - ltt[sig.symbol] < MinTimeBetweenTrades)

\* _execute_trade: the volume of the order for a signal on symbol
lot_size(symbol, price, acct, cfg, ties) ==
    IF cfg.auto_lot
    THEN calculate_lot_size(symbol, price, acct, cfg, ties)
    ELSE cfg.lot_size

\* _execute_trade for an executed order: session_data after
\* `session_data['total_trades'] += 1`, whose read of the counter gave
\* total_trades, and the append to trades_log
_execute_trade_books(sd, total_trades, entry) ==
    [total_trades |-> total_trades + 1,
     trades_log   |-> Append(sd.trades_log, entry)]

\* time.time() moves on
Tick ==
    \E d \in Elapsed :
        /\ clock + d <= MaxClock
        /\ clock' = clock + d
        /\ UNCHANGED <<riskVars, lot, pc, trade_lock, session_data, last_trade_time,
                       signal, pending,
                       sideVars>>

\* TradingEngine.start() on a connected engine whose previous loop thread has
\* ended
Start ==
    /\ ~ running
    /\ pc["loop"] = "idle"
    /\ running' = TRUE
    /\ pc' = [pc EXCEPT !["loop"] = "while"]
    /\ UNCHANGED <<daily_stats, today, config, positions, last, risk_calls, lot,
                   trade_lock, session_data, last_trade_time, clock, signal, pending,
                   sideVars>>

\* TradingEngine.stop()
Stop ==
    /\ running
    /\ running' = FALSE
    /\ UNCHANGED <<daily_stats, today, config, positions, last, risk_calls, lot,
                   engineVars,
                   sideVars>>

\* _trading_loop: the loop condition is false and the thread ends
LoopExit ==
    /\ pc["loop"] = "while"
    /\ ~ running
    /\ pc' = [pc EXCEPT !["loop"] = "idle"]
    /\ UNCHANGED <<riskVars, lot, trade_lock, session_data, last_trade_time,
                   clock, signal, pending,
                   sideVars>>

\* _trading_loop: one evaluation of _should_trade() in an active session and,
\* when it allows trading, _get_trading_signals(); quiet is the absence of
\* high-impact news
LoopShouldTrade ==
    \E acct \in EngineReads, quiet \in BOOLEAN, signals \in SignalBatches(config.symbol) :
        LET r == can_trade(daily_stats, today, acct, acct, positions, config, {})
            should_trade == r.ret /\ quiet /\ ~ (positions >= config.max_positions)
        IN  /\ pc["loop"] = "while"
            /\ running
            /\ daily_stats' = r.ds
            /\ last' = [op |-> "can_trade", ret |-> r.ret, acct |-> acct,
                        raised |-> r.raised, emergency |-> FALSE, profit |-> 0,
                        risk_before |-> config.risk_percent,
                        reset_acct |-> NoAccount, acted |-> FALSE]
            /\ pc' = [pc EXCEPT !["loop"] = IF should_trade THEN "signals" ELSE "while"]
            /\ pending' = IF should_trade THEN signals ELSE <<>>
            /\ UNCHANGED <<today, config, positions, running, risk_calls, lot,
                           trade_lock, session_data, last_trade_time, clock, signal,
                           sideVars>>

\* _process_signal for the next signal of the iteration: it returns early, or
\* the thread goes on to take the trade lock with `now` read from the clock
LoopProcessSignal ==
    LET sig == [NoSignal EXCEPT !.symbol = Head(pending).symbol,
                                !.confidence = Head(pending).confidence,
                                !.price = Head(pending).price,
                                !.now = clock]
        go  == _process_signal(sig, running, config, last_trade_time, clock)
    IN  /\ pc["loop"] = "signals"
        /\ running
        /\ pending # <<>>
        /\ pending' = Tail(pending)
        /\ signal' = [signal EXCEPT !["loop"] =
                         IF go THEN sig
                         ELSE [NoSignal EXCEPT !.confidence = Head(pending).confidence,
                                               !.result = "returned"]]
        /\ pc' = [pc EXCEPT !["loop"] = IF go THEN "acquire" ELSE "signals"]
        /\ UNCHANGED <<riskVars, lot, trade_lock, session_data, last_trade_time, clock,
                       sideVars>>

\* `with self.trade_lock:` is entered
LoopAcquire ==
    /\ pc["loop"] = "acquire"
    /\ trade_lock = "free"
    /\ trade_lock' = "loop"
    /\ pc' = [pc EXCEPT !["loop"] = "exec"]
    /\ UNCHANGED <<riskVars, lot, session_data, last_trade_time, clock, signal, pending,
                   sideVars>>

\* the signals of the iteration are used up, or the engine was stopped:
\* _manage_positions (trailing_stop is off) and the next iteration
LoopManagePositions ==
    /\ pc["loop"] = "signals"
    /\ pending = <<>> \/ ~ running
    /\ pc' = [pc EXCEPT !["loop"] = "while"]
    /\ pending' = <<>>
    /\ UNCHANGED <<riskVars, lot, trade_lock, session_data, last_trade_time,
                   clock, signal,
                   sideVars>>

\* the GUI starts a thread that runs manual_trade, which builds the signal and
\* calls _execute_trade
ManualTrade(t) ==
    \E chosen \in ManualSymbols :
        /\ pc[t] = "idle"
        /\ pc' = [pc EXCEPT ![t] = "exec"]
        /\ signal' = [signal EXCEPT ![t] =
                         [NoSignal EXCEPT !.symbol = chosen,
                                          !.confidence = ManualConfidence]]
        /\ UNCHANGED <<riskVars, lot, trade_lock, session_data, last_trade_time,
                       clock, pending,
                       sideVars>>

\* what is left of a signal when _execute_trade has returned result after the
\* broker answered with retcode ("none": no order was sent)
Returns(retcode, result) ==
    [NoSignal EXCEPT !.retcode = retcode, !.result = result]

\* where thread t continues when _execute_trade has returned: the loop thread
\* leaves the with-block, a manual thread ends
AfterExecute(t) ==
    /\ pc' = [pc EXCEPT ![t] = IF t = "loop" THEN "signals" ELSE "idle"]
    /\ trade_lock' = IF t = "loop" THEN "free" ELSE trade_lock

\* _execute_trade up to mt5.order_send: the symbol is looked up, the lot is
\* sized and the request is sent; an unknown symbol or a lot that is not
\* positive makes it return False
ExecSubmit(t) ==
    \E acct \in SizerReads, ties \in Ties \X Ties :
        LET symbol == signal[t].symbol
            volume == lot_size(symbol, SignalPrice(t), acct, config, ties)
            known  == symbol_info(symbol).ok
        IN  /\ pc[t] = "exec"
            /\ lot' = IF known /\ config.auto_lot
                      THEN [op |-> "calculate_lot_size", symbol |-> symbol,
                            price |-> SignalPrice(t), acct |-> acct, result |-> volume]
                      ELSE lot
            /\ IF known /\ RatGT(volume, <<0, 1>>)
               THEN /\ signal' = [signal EXCEPT ![t].lot_size = volume,
                                                ![t].sends = @ + 1]
                    /\ pc' = [pc EXCEPT ![t] = "send"]
                    /\ last' = [last EXCEPT !.acted = TRUE]
                    /\ UNCHANGED trade_lock
               ELSE /\ signal' = [signal EXCEPT ![t] = Returns("none", "False")]
                    /\ AfterExecute(t)
                    /\ UNCHANGED last
            /\ UNCHANGED <<daily_stats, today, config, positions, running, risk_calls,
                           session_data, last_trade_time, clock, pending,
                           sideVars>>

\* _execute_trade that books an executed order with record_trade_result itself
ExecBookRecording(t) ==
    LET entry == [time |-> clock, symbol |-> signal[t].symbol]
    IN  /\ pc[t] = "book"
        /\ session_data' = _execute_trade_books(session_data, signal[t].total_trades, entry)
        /\ daily_stats' = record_trade_result(daily_stats, 0)
        /\ signal' = [signal EXCEPT ![t] = Returns("DONE", "True")]
        /\ UNCHANGED last_trade_time
        /\ AfterExecute(t)
        /\ UNCHANGED <<today, config, positions, running, last, risk_calls, lot,
                       clock, pending, sideVars>>

\* _execute_trade that goes on to book the trade whatever the broker answered
ExecReturnBooksRejected(t) ==
    \E done \in BOOLEAN :
        /\ pc[t] = "send"
        /\ done => Len(session_data.trades_log) + Cardinality({u \in Threads : pc[u] = "book"})
                       < MaxOrders
        /\ positions' = IF done THEN positions + 1 ELSE positions
        /\ signal' = [signal EXCEPT ![t].retcode = IF done THEN "DONE" ELSE "REJECT",
                                    ![t].total_trades = session_data.total_trades]
        /\ pc' = [pc EXCEPT ![t] = "book"]
        /\ UNCHANGED <<daily_stats, today, config, running, last, risk_calls, lot,
                       trade_lock, session_data, last_trade_time, clock, pending,
                       sideVars>>

\* mt5.order_send returns to thread t. A return code other than DONE makes
\* _execute_trade return False; when the order is done the broker holds one
\* more position and the thread starts `session_data['total_trades'] += 1` by
\* reading the counter
ExecReturn(t) ==
    \E done \in BOOLEAN :
        /\ pc[t] = "send"
        /\ done => Len(session_data.trades_log) + Cardinality({u \in Threads : pc[u] = "book"})
                       < MaxOrders
        /\ positions' = IF done THEN positions + 1 ELSE positions
        /\ IF done
           THEN /\ signal' = [signal EXCEPT ![t].retcode = "DONE",
                                            ![t].total_trades = session_data.total_trades]
                /\ pc' = [pc EXCEPT ![t] = "book"]
                /\ UNCHANGED trade_lock
           ELSE /\ signal' = [signal EXCEPT ![t] = Returns("REJECT", "False")]
                /\ AfterExecute(t)
        /\ UNCHANGED <<daily_stats, today, config, running, last, risk_calls, lot,
                       session_data, last_trade_time, clock, pending,
                       sideVars>>

\* the rest of _execute_trade for an executed order: the counter read before is
\* written back one higher and the trade is appended to trades_log; back in
\* _process_signal the loop thread notes the time it read before it took the
\* lock
ExecBook(t) ==
    LET entry == [time |-> clock, symbol |-> signal[t].symbol]
    IN  /\ pc[t] = "book"
        /\ session_data' = _execute_trade_books(session_data, signal[t].total_trades, entry)
        /\ signal' = [signal EXCEPT ![t] = Returns("DONE", "True")]
        /\ last_trade_time' =
               IF t = "loop"
               THEN [s \in DOMAIN last_trade_time \cup {signal[t].symbol} |->
                        IF s = signal[t].symbol THEN signal[t].now
                        ELSE last_trade_time[s]]
               ELSE last_trade_time
        /\ AfterExecute(t)
        /\ UNCHANGED <<daily_stats, today, config, positions, running, last,
                       risk_calls, lot, clock, pending,
                       sideVars>>

InitEngineSpec ==
    /\ InitRisk
    /\ config = DefaultConfig
    /\ lot = NoLot
    /\ InitEngine
    /\ InitSide

NextEngine ==
    \/ Start
    \/ Stop
    \/ LoopExit
    \/ LoopShouldTrade
    \/ LoopProcessSignal
    \/ LoopAcquire
    \/ LoopManagePositions
    \/ \E t \in ManualThreads : ManualTrade(t)
    \/ \E t \in Threads : ExecSubmit(t)
    \/ \E t \in Threads : ExecReturn(t)
    \/ \E t \in Threads : ExecBook(t)
    \/ BrokerUpdate
    \/ Tick

SpecEngine == InitEngineSpec /\ [][NextEngine]_vars

\* the engine configured for US30 with auto_lot off and the default fixed lot
\* of 0.01
FixedLotConfig == [DefaultConfig EXCEPT !.auto_lot = FALSE, !.symbol = "US30"]

InitFixedLot ==
    /\ InitRisk
    /\ config = FixedLotConfig
    /\ lot = NoLot
    /\ InitEngine
    /\ InitSide

SpecFixedLot == InitFixedLot /\ [][NextEngine]_vars

-----------------------------------------------------------------------------
(* The trailing stop; prices are in points of the instrument *)

\* magic number of the orders the bot sends
BotMagic == 234000

\* symbol_info.point * 10, in points
PipValue == 10

\* config trailing_distance, in pips: the default 15, and 15.05
TrailingDistances == {<<15, 1>>, <<301, 20>>}

\* ticks of the instrument: bid, and ask a spread of five points above
Ticks == {[bid |-> b, ask |-> b + 5] : b \in {2000, 2100, 2200, 2400}}

\* positions the broker holds when the engine starts to look after them: bought
\* or sold, by the bot or by hand, without a stop or with one
OpenPositions ==
    {[ok |-> TRUE, type |-> ty, magic |-> mg, sl |-> sl, tp |-> tp, sl_open |-> sl] :
        ty \in {"BUY", "SELL"}, mg \in {BotMagic, 0}, sl \in {0, 1900, 2300},
        tp \in {0, 2500}}

\* round(x, digits) of a price x given in points
RoundDigits(x, tie) == RoundNearest(x, tie)

\* TradingEngine._modify_position: the request is rounded to the digits of the
\* instrument; the broker applies it when it answers DONE
_modify_position(pos, sl, tp, ties, done) ==
    IF done
    THEN [pos EXCEPT !.sl = RoundDigits(sl, ties[1]),
                     !.tp = IF tp > 0 THEN RoundDigits(<<tp, 1>>, ties[2]) ELSE 0]
    ELSE pos

\* _update_trailing_stop that puts the stop behind the current price wherever
\* the price went
_update_trailing_stop_follows_price(pos, trailing_distance, tk, ties, done) ==
    LET offset == RatMul(trailing_distance, <<PipValue, 1>>)
        new_sl == IF pos.type = "BUY"
                  THEN Rat(tk.bid * offset[2] - offset[1], offset[2])
                  ELSE Rat(tk.ask * offset[2] + offset[1], offset[2])
    IN  _modify_position(pos, new_sl, pos.tp, ties, done)

\* TradingEngine._update_trailing_stop: the position after the call
_update_trailing_stop(pos, trailing_distance, tk, ties, done) ==
    LET offset == RatMul(trailing_distance, <<PipValue, 1>>)
        current_price == IF pos.type = "BUY" THEN tk.bid ELSE tk.ask
        new_sl == IF pos.type = "BUY"
                  THEN Rat(current_price * offset[2] - offset[1], offset[2])
                  ELSE Rat(current_price * offset[2] + offset[1], offset[2])
    IN  IF pos.type = "BUY"
        THEN IF pos.sl = 0 \/ RatGT(new_sl, <<pos.sl, 1>>)
             THEN _modify_position(pos, new_sl, pos.tp, ties, done)
             ELSE pos
        ELSE IF pos.sl = 0 \/ RatLT(new_sl, <<pos.sl, 1>>)
             THEN _modify_position(pos, new_sl, pos.tp, ties, done)
             ELSE pos

\* TradingEngine._manage_positions: the position after the call
_manage_positions(pos, cfg, tk, ties, done) ==
    IF ~ pos.ok \/ ~ cfg.trailing_stop \/ pos.magic # BotMagic
    THEN pos
    ELSE _update_trailing_stop(pos, cfg.trailing_distance, tk, ties, done)

\* the market moves
PriceTick ==
    /\ tick' \in Ticks
    /\ UNCHANGED <<riskVars, lot, engineVars, position, indicators, emitted,
                   moreVars>>

\* the loop calls _manage_positions(); done is the broker's answer to a
\* modification
ManagePositions ==
    \E ties \in Ties \X Ties, done \in BOOLEAN :
        /\ position' = _manage_positions(position, config, tick, ties, done)
        /\ UNCHANGED <<riskVars, lot, engineVars, tick, indicators, emitted,
                   moreVars>>

\* the settings of the trailing stop
TrailConfigs ==
    {[DefaultConfig EXCEPT !.trailing_stop = on, !.trailing_distance = d] :
        on \in BOOLEAN, d \in TrailingDistances}

InitTrail ==
    /\ InitRisk
    /\ config \in TrailConfigs
    /\ lot = NoLot
    /\ InitEngine
    /\ position \in OpenPositions
    /\ tick \in Ticks
    /\ indicators = NoIndicators
    /\ emitted = NoEmitted
    /\ InitMore

NextTrail ==
    \/ PriceTick
    \/ ManagePositions

SpecTrail == InitTrail /\ [][NextTrail]_vars

-----------------------------------------------------------------------------
(* The signal producer of the Scalping strategy *)

\* bars of the frame _get_trading_signals hands to the producers
NumBars == 200

\* values of the 14-period RSI and of the two moving averages on a bar
RsiValues == {25, 30, 50, 75}
FastValues == {99, 100, 101}
SlowValues == {100}

\* the indicators on the last three bars of a frame
IndicatorFrames ==
    {[rsi |-> <<50, r2, r1>>, ema_20 |-> <<f3, f2, f1>>, ema_50 |-> <<s, s, s>>] :
        r2 \in RsiValues, r1 \in RsiValues,
        f3 \in FastValues, f2 \in FastValues, f1 \in FastValues, s \in SlowValues}

\* the frame and its indicators without the latest bar
WithoutLatestBar(ind) ==
    [rsi    |-> SubSeq(ind.rsi, 1, Len(ind.rsi) - 1),
     ema_20 |-> SubSeq(ind.ema_20, 1, Len(ind.ema_20) - 1),
     ema_50 |-> SubSeq(ind.ema_50, 1, Len(ind.ema_50) - 1)]

\* return values of a producer: None, or a signal
None == [ok |-> FALSE, action |-> "", strategy |-> "", confidence |-> <<0, 1>>]
Signal(action, strategy, confidence) ==
    [ok |-> TRUE, action |-> action, strategy |-> strategy, confidence |-> confidence]

\* _scalping_strategy that wants the fast average strictly on the other side of
\* the slow one on the bar before
_scalping_strategy_strict_crossover(len_df, ind) ==
    LET cur == Len(ind.rsi)
    IN  IF len_df < 50 THEN None
        ELSE IF /\ ind.rsi[cur] < 30
                /\ ind.ema_20[cur] > ind.ema_50[cur]
                /\ ind.ema_20[cur - 1] < ind.ema_50[cur - 1]
        THEN Signal("buy", "Scalping", <<8, 10>>)
        ELSE IF /\ ind.rsi[cur] > 70
                /\ ind.ema_20[cur] < ind.ema_50[cur]
                /\ ind.ema_20[cur - 1] > ind.ema_50[cur - 1]
        THEN Signal("sell", "Scalping", <<8, 10>>)
        ELSE None

\* TradingEngine._scalping_strategy on a frame of len_df bars whose indicators
\* end with ind
_scalping_strategy(len_df, ind) ==
    LET cur == Len(ind.rsi)
    IN  IF len_df < 50 THEN None
        ELSE IF /\ ind.rsi[cur] < 30
                /\ ind.ema_20[cur] > ind.ema_50[cur]
                /\ ind.ema_20[cur - 1] <= ind.ema_50[cur - 1]
        THEN Signal("buy", "Scalping", <<8, 10>>)
        ELSE IF /\ ind.rsi[cur] > 70
                /\ ind.ema_20[cur] < ind.ema_50[cur]
                /\ ind.ema_20[cur - 1] >= ind.ema_50[cur - 1]
        THEN Signal("sell", "Scalping", <<8, 10>>)
        ELSE None

\* TradingEngine._get_technical_signals with the Scalping strategy configured:
\* the list of signals
_get_technical_signals(len_df, ind) ==
    LET s == _scalping_strategy(len_df, ind)
    IN  IF s.ok THEN <<s>> ELSE <<>>

\* the signals are produced for the frame and for the frame without its latest
\* bar
AnalyseFrame ==
    /\ emitted.op = "none"
    /\ emitted' = [op     |-> "analysed",
                   latest |-> _get_technical_signals(NumBars, indicators),
                   prior  |-> _get_technical_signals(NumBars - 1,
                                                     WithoutLatestBar(indicators))]
    /\ UNCHANGED <<riskVars, lot, engineVars, position, tick, indicators,
                   moreVars>>

InitScalping ==
    /\ InitRisk
    /\ config = DefaultConfig
    /\ lot = NoLot
    /\ InitEngine
    /\ position = NoPosition
    /\ tick = NoTick
    /\ indicators \in IndicatorFrames
    /\ emitted = NoEmitted
    /\ InitMore

NextScalping == AnalyseFrame

SpecScalping == InitScalping /\ [][NextScalping]_vars

-----------------------------------------------------------------------------
(* The threads of the trading loop and the connection to the terminal *)

\* threads start() creates in the life of the engine
MaxLoops == 2
LoopIds == 1..MaxLoops

\* TradingEngine.max_connection_attempts
max_connection_attempts == 5

\* what a round of connection attempts meets: no init method succeeds, one
\* succeeds but account_info() gives nothing, or one succeeds with an account
RoundOutcomes == {"fail", "no_account", "ok"}

\* the rounds a call of connect() meets: the same failure in every round, or
\* success in round k
ConnectScripts ==
    {[r \in 1..max_connection_attempts |-> IF r = k THEN "ok" ELSE f] :
        k \in {1, 3, max_connection_attempts, max_connection_attempts + 1},
        f \in RoundOutcomes \ {"ok"}}

\* signals an iteration of the loop collects
SignalCounts == {0, 1, 2}

\* everything the loop threads and the connection leave alone
loopFrame ==
    <<daily_stats, today, config, positions, last, risk_calls, lot, engineVars,
      position, tick, indicators, emitted, session, notifier>>

\* the rounds of TradingEngine.connect from round attempt on; connected is
\* self.connected so far
RECURSIVE connect_rounds(_, _, _)
connect_rounds(attempt, script, connected) ==
    IF attempt > max_connection_attempts
    THEN [ret |-> FALSE, connected |-> FALSE, rounds |-> max_connection_attempts]
    ELSE IF script[attempt] = "ok"
    THEN [ret |-> TRUE, connected |-> TRUE, rounds |-> attempt]
    ELSE connect_rounds(attempt + 1, script,
                        connected \/ script[attempt] = "no_account")

\* connect that returns after the last round without clearing self.connected
connect_keeps_flag(script, connected) ==
    LET c == connect_rounds(1, script, connected)
    IN  IF c.ret THEN c
        ELSE [c EXCEPT !.connected = \E r \in DOMAIN script : script[r] = "no_account"]

\* TradingEngine.connect
connect(script, connected) == connect_rounds(1, script, connected)

\* TradingEngine.is_connected; link: account_info() answers
is_connected(connected, link) == connected /\ link

\* the loop thread i is alive
Alive(i) == loops[i].pc \notin {"none", "ended"}

\* the user connects from the GUI
Connect ==
    \E script \in ConnectScripts :
        LET c == connect(script, conn.connected)
        IN  /\ conn' = [connected |-> c.connected, op |-> "connect", ret |-> c.ret,
                        rounds |-> c.rounds]
            /\ UNCHANGED <<running, loops, loopFrame>>

\* TradingEngine.disconnect(), from the GUI
Disconnect ==
    /\ conn.connected
    /\ conn' = [connected |-> FALSE, op |-> "disconnect", ret |-> TRUE, rounds |-> 0]
    /\ UNCHANGED <<running, loops, loopFrame>>

\* TradingEngine.start(): a new loop thread when the engine is not running and
\* is connected
StartThread ==
    \E link \in BOOLEAN, i \in LoopIds :
        /\ ~ running
        /\ is_connected(conn.connected, link)
        /\ loops[i].pc = "none"
        /\ \A j \in LoopIds : j < i => loops[j].pc # "none"
        /\ running' = TRUE
        /\ loops' = [loops EXCEPT ![i].pc = "while"]
        /\ UNCHANGED <<conn, loopFrame>>

\* TradingEngine.stop()
StopRunning ==
    /\ running
    /\ running' = FALSE
    /\ UNCHANGED <<loops, conn, loopFrame>>

\* _trading_loop that goes on whatever the flag says
LoopWhileIgnoresFlag(i) ==
    /\ loops[i].pc = "while"
    /\ loops' = [loops EXCEPT ![i].pc = "check"]
    /\ UNCHANGED <<running, conn, loopFrame>>

\* _trading_loop: `while self.running:` after the sleep of the iteration before
LoopWhile(i) ==
    /\ loops[i].pc = "while"
    /\ loops' = [loops EXCEPT ![i].pc = IF running THEN "check" ELSE "ended"]
    /\ UNCHANGED <<running, conn, loopFrame>>

\* _trading_loop: the connection is tested and, when it is lost, connect() is
\* called; a failed connect() ends the iteration
LoopConnection(i) ==
    \E link \in BOOLEAN, script \in ConnectScripts :
        LET c == connect(script, conn.connected)
        IN  /\ loops[i].pc = "check"
            /\ IF is_connected(conn.connected, link)
               THEN /\ loops' = [loops EXCEPT ![i].pc = "trade"]
                    /\ conn' = [conn EXCEPT !.op = "is_connected", !.ret = TRUE,
                                            !.rounds = 0]
               ELSE /\ conn' = [connected |-> c.connected, op |-> "reconnect",
                                ret |-> c.ret, rounds |-> c.rounds]
                    /\ loops' = [loops EXCEPT ![i].pc = IF c.ret THEN "trade"
                                                        ELSE "while"]
            /\ UNCHANGED <<running, loopFrame>>

\* _trading_loop: _should_trade() and _get_trading_signals(); no signal when
\* trading is not allowed
LoopTrade(i) ==
    \E n \in SignalCounts :
        /\ loops[i].pc = "trade"
        /\ loops' = [loops EXCEPT ![i] = [pc |-> "signals", todo |-> n]]
        /\ UNCHANGED <<running, conn, loopFrame>>

\* _trading_loop: the next signal of the iteration is processed
LoopSignal(i) ==
    /\ loops[i].pc = "signals"
    /\ loops[i].todo > 0
    /\ running
    /\ loops' = [loops EXCEPT ![i].todo = @ - 1]
    /\ UNCHANGED <<running, conn, loopFrame>>

\* _trading_loop: the signals are used up or the engine was stopped; positions
\* are managed and the thread sleeps
LoopRest(i) ==
    /\ loops[i].pc = "signals"
    /\ loops[i].todo = 0 \/ ~ running
    /\ loops' = [loops EXCEPT ![i] = [pc |-> "while", todo |-> 0]]
    /\ UNCHANGED <<running, conn, loopFrame>>

\* a step of loop thread i
LoopStep(i) ==
    \/ LoopWhile(i)
    \/ LoopConnection(i)
    \/ LoopTrade(i)
    \/ LoopSignal(i)
    \/ LoopRest(i)

InitLoops ==
    /\ InitRisk
    /\ config = DefaultConfig
    /\ lot = NoLot
    /\ InitEngine
    /\ position = NoPosition
    /\ tick = NoTick
    /\ indicators = NoIndicators
    /\ emitted = NoEmitted
    /\ loops = [i \in LoopIds |-> [pc |-> "none", todo |-> 0]]
    /\ conn = NoConnect
    /\ session = NoSession
    /\ notifier = NoNotifier

NextLoops ==
    \/ Connect
    \/ Disconnect
    \/ StartThread
    \/ StopRunning
    \/ \E i \in LoopIds : LoopWhile(i)
    \/ \E i \in LoopIds : LoopConnection(i)
    \/ \E i \in LoopIds : LoopTrade(i)
    \/ \E i \in LoopIds : LoopSignal(i)
    \/ \E i \in LoopIds : LoopRest(i)

SpecLoops == InitLoops /\ [][NextLoops]_vars

\* the scheduler lets every loop thread run, and its sleeps end
SpecLoopsFair == SpecLoops /\ \A i \in LoopIds : WF_vars(LoopStep(i))

-----------------------------------------------------------------------------
(* The session manager: session windows and the weekend check *)

\* SessionManager.sessions in the order of the dict, with the start and the
\* end of each window as hour and minute
SessionNames == <<"Asia", "London", "New_York", "Overlap_London_NY">>

Sessions ==
    [Asia              |-> [start |-> <<21, 0>>, end |-> <<6, 0>>],
     London            |-> [start |-> <<7, 0>>,  end |-> <<16, 0>>],
     New_York          |-> [start |-> <<13, 0>>, end |-> <<22, 0>>],
     Overlap_London_NY |-> [start |-> <<13, 0>>, end |-> <<16, 0>>]]

\* names enable_session is called with; Sydney is not a session
EnableNames == DOMAIN Sessions \cup {"Sydney"}

\* datetime.weekday(): Monday is 0 and Sunday is 6
Weekdays == 0..6

\* minutes of the day at which the UTC clock is read: every full hour, the
\* last minute of the day, and the minutes next to the start and the end of
\* every window
ClockMinutes ==
    {h * 60 : h \in 0..23} \cup {23 * 60 + 59}
    \cup {h * 60 + d : h \in {6, 7, 13, 16, 21, 22}, d \in {-1, 1}}

\* SessionManager._parse_time for a well-formed "HH:MM"
_parse_time(time_str) == time_str[1] * 60 + time_str[2]

\* get_current_session: the test of one session against the minute of the day
session_is_active(info, active, current_time_minutes) ==
    LET start_time == _parse_time(info.start)
        end_time   == _parse_time(info.end)
    IN  /\ active
        /\ IF start_time > end_time
           THEN current_time_minutes >= start_time \/ current_time_minutes <= end_time
           ELSE start_time <= current_time_minutes /\ current_time_minutes <= end_time

\* get_current_session that returns sessions whatever their 'active' flag
get_current_session_ignores_flag(active, current_time_minutes) ==
    LET active_sessions ==
            SelectSeq(SessionNames,
                      LAMBDA n : session_is_active(Sessions[n], TRUE,
                                                   current_time_minutes))
    IN  IF \E i \in DOMAIN active_sessions : active_sessions[i] = "Overlap_London_NY"
        THEN "Overlap_London_NY"
        ELSE IF Len(active_sessions) > 0 THEN active_sessions[1]
        ELSE "None"

\* SessionManager.get_current_session at the minute current_time_minutes (UTC)
\* of the day; active: the 'active' flags of the sessions
get_current_session(active, current_time_minutes) ==
    LET active_sessions ==
            SelectSeq(SessionNames,
                      LAMBDA n : session_is_active(Sessions[n], active[n],
                                                   current_time_minutes))
    IN  IF \E i \in DOMAIN active_sessions : active_sessions[i] = "Overlap_London_NY"
        THEN "Overlap_London_NY"
        ELSE IF Len(active_sessions) > 0 THEN active_sessions[1]
        ELSE "None"

\* utils.is_market_open on weekday day_of_week at hour
is_market_open(day_of_week, hour) ==
    IF day_of_week = 5 /\ hour >= 22 THEN FALSE
    ELSE IF day_of_week = 6 THEN FALSE
    ELSE IF day_of_week = 0 /\ hour < 22 THEN FALSE
    ELSE TRUE

\* the session manager after construction, every session active, at weekday
\* and minute of the UTC clock
InitSessionManager(weekday, minute) ==
    [op |-> "none", active |-> [n \in DOMAIN Sessions |-> TRUE],
     weekday |-> weekday, minute |-> minute, name |-> "None", ret |-> FALSE,
     current_session |-> "None"]

\* SessionManager.enable_session(name, enabled)
EnableSession ==
    \E name \in EnableNames, enabled \in BOOLEAN :
        /\ session' = [session EXCEPT
                          !.op = "enable_session",
                          !.active = IF name \in DOMAIN Sessions
                                     THEN [@ EXCEPT ![name] = enabled] ELSE @,
                          !.name = "None",
                          !.ret = name \in DOMAIN Sessions]
        /\ UNCHANGED <<riskVars, lot, engineVars, position, tick, indicators, emitted,
                       loops, conn, notifier>>

\* SessionManager.get_current_session()
GetCurrentSession ==
    LET name == get_current_session(session.active, session.minute)
    IN  /\ session' = [session EXCEPT !.op = "get_current_session",
                                      !.name = name, !.ret = name # "None"]
        /\ UNCHANGED <<riskVars, lot, engineVars, position, tick, indicators,
                       emitted, loops, conn, notifier>>

\* utils.is_market_open()
IsMarketOpen ==
    /\ session' = [session EXCEPT
                      !.op = "is_market_open",
                      !.name = "None",
                      !.ret = is_market_open(session.weekday, session.minute \div 60)]
    /\ UNCHANGED <<riskVars, lot, engineVars, position, tick, indicators, emitted,
                   loops, conn, notifier>>

\* SessionManager.is_trading_session_active()
IsTradingSessionActive ==
    LET open == is_market_open(session.weekday, session.minute \div 60)
        name == get_current_session(session.active, session.minute)
    IN  /\ session' = [session EXCEPT
                          !.op = "is_trading_session_active",
                          !.name = IF open THEN name ELSE "None",
                          !.ret = open /\ name # "None",
                          !.current_session = IF open /\ name # "None"
                                              THEN name ELSE @]
        /\ UNCHANGED <<riskVars, lot, engineVars, position, tick, indicators,
                       emitted, loops, conn, notifier>>

\* the calls are made at one reading of the UTC clock
InitSession ==
    /\ InitRisk
    /\ config = DefaultConfig
    /\ lot = NoLot
    /\ InitEngine
    /\ position = NoPosition
    /\ tick = NoTick
    /\ indicators = NoIndicators
    /\ emitted = NoEmitted
    /\ loops = NoLoops
    /\ conn = NoConnect
    /\ \E d \in Weekdays, m \in ClockMinutes : session = InitSessionManager(d, m)
    /\ notifier = NoNotifier

NextSession ==
    \/ EnableSession
    \/ GetCurrentSession
    \/ IsMarketOpen
    \/ IsTradingSessionActive

SpecSession == InitSession /\ [][NextSession]_vars

-----------------------------------------------------------------------------
(* The notifier: send_message and the worker thread of TelegramBot.  The    *)
(* worker sorts message_queue in place while other threads append to it;    *)
(* list.sort() empties the list for the time of the sort and puts the       *)
(* sorted items back at its end, so the sort is two steps here.             *)

\* calls of send_message after construction
MaxMessages == 3

\* the priority tags of a message
Priorities == {"high", "normal", "low"}

\* priority_order of _get_next_message
priority_order(priority) ==
    IF priority = "high" THEN 0 ELSE IF priority = "low" THEN 2 ELSE 1

\* TelegramBot.rate_limit_delay, in seconds
rate_limit_delay == 1

\* seconds after which a message that could not be sent is dropped
requeue_window == 300

\* no message
NoMessage == [id |-> 0, priority |-> "none", timestamp |-> 0]

\* the sort key of a message is not above that of another
KeyLE(a, b) ==
    \/ priority_order(a.priority) < priority_order(b.priority)
    \/ /\ priority_order(a.priority) = priority_order(b.priority)
       /\ a.timestamp <= b.timestamp

\* a message put into a sorted queue behind the messages whose key is not above
\* its own
RECURSIVE insert_sorted(_, _)
insert_sorted(q, msg) ==
    IF q = <<>> THEN <<msg>>
    ELSE IF KeyLE(Head(q), msg) THEN <<Head(q)>> \o insert_sorted(Tail(q), msg)
    ELSE <<msg>> \o q

\* message_queue.sort(key=(priority_order, timestamp)): a stable sort
RECURSIVE sort_queue(_)
sort_queue(q) ==
    IF q = <<>> THEN <<>>
    ELSE insert_sorted(sort_queue(SubSeq(q, 1, Len(q) - 1)), q[Len(q)])

\* the notifier after construction; an enabled one has queued its greeting and
\* started the worker
InitNotifier(enabled) ==
    [enabled |-> enabled,
     message_queue |-> IF enabled
                       THEN <<[id |-> 1, priority |-> "normal", timestamp |-> 0]>>
                       ELSE <<>>,
     accepted |-> IF enabled THEN {1} ELSE {},
     calls |-> 0,
     sorting |-> FALSE, saved |-> <<>>, current_time |-> 0,
     last_message_time |-> 0 - rate_limit_delay,
     removed |-> {}, taken |-> NoMessage, rest |-> <<>>,
     op |-> "none", ret |-> FALSE]

\* TelegramBot.send_message(message, priority), from any thread
SendMessage ==
    \E priority \in Priorities :
        LET id  == Cardinality(notifier.accepted) + 1
            msg == [id |-> id, priority |-> priority, timestamp |-> clock]
        IN  /\ notifier.calls < MaxMessages
            /\ notifier' =
                  IF notifier.enabled
                  THEN [notifier EXCEPT !.message_queue = Append(@, msg),
                                        !.accepted = @ \cup {id},
                                        !.calls = @ + 1,
                                        !.op = "send_message", !.ret = TRUE]
                  ELSE [notifier EXCEPT !.calls = @ + 1,
                                        !.op = "send_message", !.ret = FALSE]
            /\ UNCHANGED <<riskVars, lot, engineVars, position, tick, indicators,
                           emitted, loops, conn, session>>

\* _message_worker up to the start of message_queue.sort() in
\* _get_next_message: the queue is not empty and the rate limit has passed; the
\* list is empty while it is sorted
WorkerSortBegin ==
    /\ notifier.enabled
    /\ ~ notifier.sorting
    /\ notifier.message_queue # <<>>
    /\ ~ (clock - notifier.last_message_time < rate_limit_delay)
    /\ notifier' = [notifier EXCEPT !.sorting = TRUE,
                                    !.saved = notifier.message_queue,
                                    !.message_queue = <<>>,
                                    !.current_time = clock,
                                    !.op = "sort", !.ret = TRUE]
    /\ UNCHANGED <<riskVars, lot, engineVars, position, tick, indicators, emitted,
                   loops, conn, session>>

\* the end of message_queue.sort() and the rest of the worker's iteration.  A
\* list that was appended to during the sort gets its sorted items back, the
\* appended ones are dropped and sort() raises ValueError: _get_next_message
\* returns None.  Otherwise the first message is popped and sent; sent is the
\* answer of _send_message_now, and a message that was not sent is queued again
\* while it is younger than five minutes
WorkerSortEnd(sent) ==
    LET sorted == sort_queue(notifier.saved)
        taken  == Head(sorted)
        rest   == Tail(sorted)
        again  == notifier.current_time - taken.timestamp < requeue_window
    IN  /\ notifier.sorting
        /\ notifier' =
              IF notifier.message_queue # <<>>
              THEN [notifier EXCEPT !.sorting = FALSE, !.saved = <<>>,
                                    !.message_queue = sorted,
                                    !.taken = NoMessage, !.rest = sorted,
                                    !.op = "get_next_message", !.ret = FALSE]
              ELSE [notifier EXCEPT
                       !.sorting = FALSE, !.saved = <<>>,
                       !.message_queue = IF ~ sent /\ again THEN Append(rest, taken)
                                         ELSE rest,
                       !.last_message_time = IF sent THEN notifier.current_time ELSE @,
                       !.removed = @ \cup {taken.id},
                       !.taken = taken, !.rest = rest,
                       !.op = "get_next_message", !.ret = sent]
        /\ UNCHANGED <<riskVars, lot, engineVars, position, tick, indicators,
                       emitted, loops, conn, session>>

InitNotifierSpec ==
    /\ InitRisk
    /\ config = DefaultConfig
    /\ lot = NoLot
    /\ InitEngine
    /\ position = NoPosition
    /\ tick = NoTick
    /\ indicators = NoIndicators
    /\ emitted = NoEmitted
    /\ loops = NoLoops
    /\ conn = NoConnect
    /\ session = NoSession
    /\ \E enabled \in BOOLEAN : notifier = InitNotifier(enabled)

NextNotifier ==
    \/ SendMessage
    \/ WorkerSortBegin
    \/ \E sent \in BOOLEAN : WorkerSortEnd(sent)
    \/ Tick

SpecNotifier == InitNotifierSpec /\ [][NextNotifier]_vars

-----------------------------------------------------------------------------
(* Claims about the risk gate *)

\* the statistics and the account read that the last call returned with
Returned(op) == last.op = op

\* the daily loss in percent of the start balance, as the configuration and the
\* log messages mean it
TrueLossPct(start_balance, balance) ==
    Rat((start_balance - balance) * 100, start_balance)

\* the drawdown from the peak in percent
TrueDrawdownPct(start_balance, equity) ==
    LET peak == IF start_balance > equity THEN start_balance ELSE equity
    IN  Rat((peak - equity) * 100, peak)

\* C1: after every record_trade_result call, and after every daily reset between
\* them, winning_trades + losing_trades equals trades_today.
C1_CountersAddUp ==
    daily_stats.winning_trades + daily_stats.losing_trades = daily_stats.trades_today

\* C1 witness: on the day after a reset a trade has been recorded, with a winning
\* and a losing (or break-even) trade among the day's trades.
C1_Witness ==
    /\ Returned("record_trade_result")
    /\ daily_stats.last_reset = 1
    /\ daily_stats.winning_trades >= 1
    /\ daily_stats.losing_trades >= 1

\* C2: a can_trade() call that returns with consecutive_losses at or above
\* max_loss_streak returns false, whatever account it read.
C2_LossStreakBlocks ==
    (Returned("can_trade") /\ daily_stats.consecutive_losses >= config.max_loss_streak)
        => last.ret = FALSE

\* C2 witness: the streak is at the limit and everything else is favourable (an
\* account that passes every other check, no open position, nothing raised).
C2_Witness ==
    /\ Returned("can_trade")
    /\ daily_stats.consecutive_losses >= config.max_loss_streak
    /\ last.acct = GoodAccount
    /\ daily_stats.start_balance = 10000
    /\ positions = 0
    /\ last.raised = {}
    /\ last.ret = FALSE

\* C3: with start_balance > 0, can_trade() returns false whenever the daily loss
\* percent (start_balance - balance) / start_balance * 100 exceeds max_daily_loss.
C3_DailyLossBlocks ==
    (/\ Returned("can_trade")
     /\ last.acct.ok
     /\ daily_stats.start_balance > 0
     /\ RatGT(TrueLossPct(daily_stats.start_balance, last.acct.balance),
              config.max_daily_loss))
        => last.ret = FALSE

\* C4: with auto_stop_drawdown enabled and start_balance > 0, can_trade() returns
\* false whenever the drawdown from the peak exceeds max_drawdown; with it
\* disabled and every other check passing, can_trade() returns true.
C4_DrawdownBlocks ==
    (/\ Returned("can_trade")
     /\ last.acct.ok
     /\ daily_stats.start_balance > 0
     /\ RatGT(TrueDrawdownPct(daily_stats.start_balance, last.acct.equity),
              config.max_drawdown))
        => IF config.auto_stop_drawdown
           THEN last.ret = FALSE
           ELSE (/\ last.raised = {}
                 /\ ~ RatGT(TrueLossPct(daily_stats.start_balance, last.acct.balance),
                            config.max_daily_loss)
                 /\ positions < config.max_positions
                 /\ daily_stats.consecutive_losses < config.max_loss_streak
                 /\ last.acct.margin_level >= MinMarginLevel
                 /\ last.acct.margin > 0
                 /\ 10 * last.acct.margin_free >= last.acct.balance)
                    => last.ret = TRUE

\* the checks the fail-closed rule names
BlockingChecks == {"daily_loss", "drawdown", "positions", "loss_streak", "margin"}

\* C5: can_trade() returns false whenever the account snapshot is unavailable or
\* one of the daily-loss, drawdown, position-count, loss-streak and margin checks
\* raises.
C5_FailsClosed ==
    (Returned("can_trade") /\ (~ last.acct.ok \/ last.raised \cap BlockingChecks # {}))
        => last.ret = FALSE

\* C5 witness: a check raised on an account and statistics that pass every check.
C5_Witness ==
    /\ Returned("can_trade")
    /\ last.acct = GoodAccount
    /\ last.raised = {"positions"}
    /\ positions = 0
    /\ daily_stats.consecutive_losses = 0
    /\ last.ret = FALSE

-----------------------------------------------------------------------------
(* Claims about the position sizer *)

\* calculate_lot_size has returned for a known instrument and an available account
Sized == lot.op = "calculate_lot_size" /\ lot.acct.ok /\ symbol_info(lot.symbol).ok

\* x is a whole multiple of step
IsMultipleOf(x, step) == safe_divide(x, step)[2] = 1

\* |x - y| <= d
Within(x, y, d) ==
    LET diff == Rat(x[1] * y[2] - y[1] * x[2], x[2] * y[2])
    IN  RatLE(<<Abs(diff[1]), diff[2]>>, d)

\* C6: for every risk_percent in (0, 50], every stop-loss distance and every
\* balance, the lot size returned for an instrument lies within the instrument's
\* [volume_min, volume_max] and is a whole multiple of its volume_step.
C6_LotWithinLimits ==
    Sized =>
        LET info == symbol_info(lot.symbol)
        IN  /\ RatLE(info.volume_min, lot.result)
            /\ RatLE(lot.result, info.volume_max)
            /\ IsMultipleOf(lot.result, info.volume_step)

-----------------------------------------------------------------------------
(* Claims about the adaptive risk and the emergency path *)

\* C8: starting from a configured risk_percent of 1.0, when the second
\* consecutive losing trade has been recorded the configured risk_percent is
\* 0.8; and when a winning trade is recorded with risk_percent at 0.8 it becomes
\* 0.88.
C8_RecordingAdaptsRisk ==
    /\ (/\ Returned("record_trade_result")
        /\ last.profit < 0
        /\ last.risk_before = <<1, 1>>
        /\ daily_stats.consecutive_losses = 2)
           => config.risk_percent = <<4, 5>>
    /\ (/\ Returned("record_trade_result")
        /\ last.profit > 0
        /\ last.risk_before = <<4, 5>>)
           => config.risk_percent = <<22, 25>>

\* C9: every record_trade_result call that reads a cumulative daily loss percent
\* (start_balance - balance) / start_balance * 100 above emergency_stop_threshold
\* returns with no position open and with the engine not running.
C9_EmergencyClosesAndHalts ==
    [][(/\ daily_stats'.trades_today = daily_stats.trades_today + 1
        /\ last'.op = "record_trade_result"
        /\ last'.acct.ok
        /\ daily_stats'.start_balance > 0
        /\ RatGT(TrueLossPct(daily_stats'.start_balance, last'.acct.balance),
                 config.emergency_stop_threshold))
           => (positions' = 0 /\ ~ running')]_vars

-----------------------------------------------------------------------------
(* Claims about the trading engine *)

\* the threads whose order request is with the broker
InFlight == {t \in Threads : pc[t] = "send"}

\* C10: at most one order submission is in flight at any time, whether it was
\* started by the trading loop or by a manual buy/sell thread.
C10_OneOrderInFlight == Cardinality(InFlight) <= 1

\* thread t hands an order to the broker in this step
Submits(t) == pc[t] # "send" /\ pc'[t] = "send"

\* C11: every order submission is preceded by a can_trade() evaluation that
\* returned true, with no other order submission in between.
C11_GateBeforeEveryOrder ==
    [][\A t \in Threads :
          Submits(t) => (last.op = "can_trade" /\ last.ret /\ ~ last.acted)]_vars

\* an order on symbol was executed less than 60 seconds before time now
TradedWithinCooldown(symbol, now) ==
    \E i \in DOMAIN session_data.trades_log :
        /\ session_data.trades_log[i].symbol = symbol
        /\ now - session_data.trades_log[i].time < MinTimeBetweenTrades

\* C12: the loop submits no order for a signal on a symbol on which an order
\* was executed less than 60 seconds ago.
C12_CooldownSkips ==
    [][Submits("loop") =>
          ~ TradedWithinCooldown(signal["loop"].symbol, clock)]_vars

\* the confidence is below the configured minimum confidence
BelowMinimum(confidence) == RatLT(confidence, config.ai_confidence)

\* C13: _process_signal returns on a signal whose confidence is below the
\* configured minimum without a change to last_trade_time, the trade counter
\* or the trade log, and the loop never takes the lock or submits an order for
\* such a signal.
C13_LowConfidenceDiscarded ==
    [][/\ (/\ pc["loop"] = "signals"
           /\ pending # <<>>
           /\ pending' = Tail(pending)
           /\ BelowMinimum(Head(pending).confidence))
          => /\ pc'["loop"] = "signals"
             /\ signal'["loop"].sends = 0
             /\ last_trade_time' = last_trade_time
             /\ session_data' = session_data
       /\ pc'["loop"] \in {"acquire", "exec", "send", "book"}
          => ~ BelowMinimum(signal'["loop"].confidence)]_vars

\* C13 witness: _process_signal has returned on a signal of confidence 0.7 while
\* the engine is running and the symbol was never traded.
C13_Witness ==
    /\ running
    /\ pc["loop"] = "signals"
    /\ signal["loop"].result = "returned"
    /\ BelowMinimum(signal["loop"].confidence)
    /\ last_trade_time = <<>>
    /\ pending # <<>>

\* C15: when the broker answers an order with a return code other than DONE,
\* the executor has sent the order once, returns False without sending again,
\* and the trade counter, the trade log and last_trade_time stay as they were.
C15_RejectedOrder ==
    [][\A t \in Threads :
          (/\ pc[t] = "send"
           /\ pc'[t] # "send"
           /\ signal'[t].retcode = "REJECT")
          => /\ signal[t].sends = 1
             /\ signal'[t].result = "False"
             /\ pc'[t] \notin {"acquire", "exec", "send", "book"}
             /\ session_data' = session_data
             /\ last_trade_time' = last_trade_time]_vars

\* C15 witness: the first order of the loop was rejected; nothing is booked.
C15_Witness ==
    /\ pc["loop"] = "signals"
    /\ signal["loop"].retcode = "REJECT"
    /\ signal["loop"].result = "False"
    /\ session_data = [total_trades |-> 0, trades_log |-> <<>>]
    /\ last_trade_time = <<>>

\* C17: with auto_lot off, the volume of every order the executor submits lies
\* within [volume_min, volume_max] of the instrument.
C17_FixedLotClamped ==
    \A t \in Threads :
        (pc[t] = "send" /\ ~ config.auto_lot)
        => LET info == symbol_info(signal[t].symbol)
           IN  /\ RatGE(signal[t].lot_size, info.volume_min)
               /\ RatLE(signal[t].lot_size, info.volume_max)

-----------------------------------------------------------------------------
(* Claims about the margin check and the daily reset *)

\* the free margin of the last account read is below 10% of its balance
LowFreeMargin == 10 * last.acct.margin_free < last.acct.balance

\* C16 as stated: can_trade() returns false whenever the margin level it read is
\* below 200 or the free margin is below 10% of the balance, for every value of
\* the used margin, zero included.
C16_MarginBlocksAnyMargin ==
    (/\ Returned("can_trade")
     /\ last.acct.ok
     /\ (last.acct.margin_level < MinMarginLevel \/ LowFreeMargin))
        => last.ret = FALSE

\* C16: can_trade() returns false whenever the account it read uses margin
\* (margin > 0) at a margin level below 200, or has a free margin below 10% of
\* its balance.
C16_MarginBlocks ==
    (/\ Returned("can_trade")
     /\ last.acct.ok
     /\ \/ (last.acct.margin > 0 /\ last.acct.margin_level < MinMarginLevel)
        \/ LowFreeMargin)
        => last.ret = FALSE

\* C16 witness: the free margin alone is short (500 of a balance of 10000) on an
\* account and statistics that pass every other check.
C16_Witness ==
    /\ Returned("can_trade")
    /\ last.acct.ok
    /\ last.acct.margin > 0
    /\ last.acct.margin_level >= MinMarginLevel
    /\ LowFreeMargin
    /\ last.raised = {}
    /\ positions = 0
    /\ daily_stats.consecutive_losses = 0
    /\ daily_stats.start_balance = last.acct.balance
    /\ last.ret = FALSE

\* a step in which can_trade() is evaluated (it leaves the date and the broker's
\* positions alone and is the last call afterwards)
CanTradeStep ==
    /\ last'.op = "can_trade"
    /\ today' = today
    /\ positions' = positions

\* the counters of the day
DayCounters(ds) ==
    <<ds.trades_today, ds.winning_trades, ds.losing_trades, ds.consecutive_losses>>

C20_StartBalancePerDay ==
    [][(/\ CanTradeStep
        /\ daily_stats.last_reset < today
        /\ daily_stats'.last_reset = today) =>
          LET first == IF last'.reset_acct.ok THEN last'.reset_acct ELSE last'.acct
          IN  first.ok => daily_stats'.start_balance = first.balance]_vars

-----------------------------------------------------------------------------
(* Claims about the trailing stop and the signal producers *)

\* C14: whatever the ticks and the maintenance calls, the stop of a position of
\* the bot that has a stop still is one and only moves in the favourable
\* direction: it never decreases for a long position and never increases for a
\* short one.
C14_TrailingStopOnlyTightens ==
    [][(position.ok /\ position.magic = BotMagic /\ position.sl # 0) =>
          /\ position'.sl # 0
          /\ IF position.type = "BUY"
             THEN position'.sl >= position.sl
             ELSE position'.sl <= position.sl]_vars

\* C14 witness: the stop of a long position of the bot, opened with a stop, was
\* raised, and the price has since fallen to less than trailing_distance above
\* it.
C14_Witness ==
    /\ position.ok
    /\ position.magic = BotMagic
    /\ position.type = "BUY"
    /\ position.sl_open # 0
    /\ position.sl > position.sl_open
    /\ tick.bid < position.sl + 150

\* on the latest bar the oscillator is below 30 and the fast average is above
\* the slow one, while on the bar before it was below or equal
BullishSetup ==
    /\ indicators.rsi[3] < 30
    /\ indicators.ema_20[3] > indicators.ema_50[3]
    /\ indicators.ema_20[2] <= indicators.ema_50[2]

\* on the bar before the latest the oscillator is above 70 and the fast average
\* has just crossed below the slow one
BearishSetupOnPriorBar ==
    /\ indicators.rsi[2] > 70
    /\ indicators.ema_20[2] < indicators.ema_50[2]
    /\ indicators.ema_20[1] >= indicators.ema_50[1]

-----------------------------------------------------------------------------
(* Claims about the adaptive risk, the executor's frame and the sessions *)

\* C29: adjust_risk_after_loss never increases the configured risk_percent, and
\* with fewer than two consecutive losses it leaves it unchanged.
C29_AdjustNeverIncreases ==
    Returned("adjust_risk_after_loss") =>
        /\ RatLE(config.risk_percent, last.risk_before)
        /\ daily_stats.consecutive_losses < 2 => config.risk_percent = last.risk_before

\* thread t takes a step of _execute_trade
Executes(t) == pc[t] \in {"exec", "send", "book"} /\ pc'[t] # pc[t]

\* C21: no step of the order executor, on success as on failure, changes the
\* daily statistics of the risk manager (trades_today, winning_trades,
\* losing_trades, consecutive_losses, start_balance).
C21_ExecutorLeavesDailyStats ==
    [][(\E t \in Threads : Executes(t)) => daily_stats' = daily_stats]_vars

\* C21 witness: an order of the loop was executed and booked in the session,
\* and the risk manager, which seeded its start balance before, counts no trade.
C21_Witness ==
    /\ signal["loop"].result = "True"
    /\ session_data.total_trades = 1
    /\ daily_stats.start_balance > 0
    /\ daily_stats.trades_today = 0
    /\ daily_stats.consecutive_losses = 0

\* no thread is inside _execute_trade
NoExecution == \A t \in Threads : pc[t] \notin {"exec", "send", "book"}

\* C30: whenever no order execution is in progress, total_trades equals the
\* number of entries of trades_log.
C30_CounterMatchesLog ==
    NoExecution => session_data.total_trades = Len(session_data.trades_log)

-----------------------------------------------------------------------------
(* Claims about the loop threads and the connection *)

\* the loop threads that are alive
ActiveLoops == {i \in LoopIds : Alive(i)}

\* C27: under any sequence of start() and stop() calls at most one trading-loop
\* thread is alive.
C27_OneLoopThread == Cardinality(ActiveLoops) <= 1

\* C24: once the engine is stopped for good every loop thread eventually exits,
\* and a loop thread begins an iteration or processes a signal only in a step
\* in which it finds running set.
C24_StopEndsLoop ==
    /\ [][\A i \in LoopIds :
            (\/ loops[i].pc = "while" /\ loops'[i].pc = "check"
             \/ loops'[i].todo < loops[i].todo /\ loops'[i].pc = "signals")
            => running]_vars
    /\ <>[](~ running) => <>[](ActiveLoops = {})

\* C24 witness: the engine was stopped while its loop thread ran and was not
\* started again; the thread has ended.
C24_Witness ==
    /\ ~ running
    /\ loops[1].pc = "ended"
    /\ loops[2].pc = "none"

\* C25: connect() makes at most max_connection_attempts rounds; when the loop
\* finds the connection lost and every round fails, connect() has made
\* max_connection_attempts rounds, connected is false, and the thread goes
\* back to the head of the loop with no signal to process.
C25_ReconnectBounded ==
    [][/\ conn'.rounds <= max_connection_attempts
       /\ \A i \in LoopIds :
            (/\ loops[i].pc = "check"
             /\ loops'[i].pc # "check"
             /\ conn'.op = "reconnect"
             /\ ~ conn'.ret)
            => /\ conn'.rounds = max_connection_attempts
               /\ ~ conn'.connected
               /\ loops'[i] = [pc |-> "while", todo |-> 0]]_vars

\* C25 witness: a running loop thread is back at the head of the loop after a
\* reconnect whose rounds all failed.
C25_Witness ==
    /\ running
    /\ conn.op = "reconnect"
    /\ ~ conn.ret
    /\ conn.rounds = max_connection_attempts
    /\ ~ conn.connected
    /\ loops[1].pc = "while"

\* the loop hands the broker an order for a signal of the classifier on a
\* symbol other than the configured one, while every open position was opened
\* by the loop at this reading of the clock on the configured symbol
SecondSignalOfTick ==
    /\ Submits("loop")
    /\ signal["loop"].symbol # config.symbol
    /\ positions = Len(session_data.trades_log)
    /\ \A i \in DOMAIN session_data.trades_log :
          /\ session_data.trades_log[i].symbol = config.symbol
          /\ session_data.trades_log[i].time = clock

\* C28: the loop hands an order to the broker only while the number of open
\* positions is below max_positions, also for the second signal of a tick that
\* carries a rule-based signal and a classifier signal on different symbols.
C28_LoopRespectsMaxPositions ==
    [][SecondSignalOfTick => positions < config.max_positions]_vars

-----------------------------------------------------------------------------
(* Claims about the sessions *)

\* the window of session n, taken from its start forward to its end and past
\* midnight when the end is the earlier time of day, contains minute m
WindowContains(n, m) ==
    LET start == Sessions[n].start[1] * 60 + Sessions[n].start[2]
        end   == Sessions[n].end[1] * 60 + Sessions[n].end[2]
    IN  (m - start) % (24 * 60) <= (end - start) % (24 * 60)

\* C22: get_current_session() returns a session exactly when the window of some
\* enabled session contains the current minute; the session it returns is
\* enabled and its window contains the minute, so a disabled session is never
\* returned.
C22_CurrentSession ==
    session.op = "get_current_session" =>
        /\ session.ret <=> \E n \in DOMAIN Sessions :
                              session.active[n] /\ WindowContains(n, session.minute)
        /\ session.ret <=> session.name # "None"
        /\ session.ret =>
              /\ session.name \in DOMAIN Sessions
              /\ session.active[session.name]
              /\ WindowContains(session.name, session.minute)

\* C22 witness: with Asia and the overlap disabled through enable_session,
\* get_current_session() at 22:00 returns New_York, whose window ends at that
\* minute, and not Asia, whose window wraps past midnight and holds it too.
C22_Witness ==
    /\ session.op = "get_current_session"
    /\ ~ session.active["Overlap_London_NY"]
    /\ ~ session.active["Asia"]
    /\ session.minute = 22 * 60
    /\ session.name = "New_York"

\* the weekend of the foreign exchange market: Friday 22:00 UTC to Sunday 22:00
Weekend(day_of_week, hour) ==
    \/ day_of_week = 4 /\ hour >= 22
    \/ day_of_week = 5
    \/ day_of_week = 6 /\ hour < 22

\* C23: is_market_open() is false from Friday 22:00 UTC to Sunday 22:00 UTC and
\* true at every other weekday and hour, and is_trading_session_active() is
\* false throughout that weekend.
C23_MarketClosedAtWeekend ==
    /\ session.op = "is_market_open" =>
          (session.ret <=> ~ Weekend(session.weekday, session.minute \div 60))
    /\ session.op = "is_trading_session_active" =>
          (Weekend(session.weekday, session.minute \div 60) => ~ session.ret)

-----------------------------------------------------------------------------
(* Claims about the notifier *)

\* the ids of the messages in a queue
Ids(q) == {q[i].id : i \in DOMAIN q}

\* every accepted message is in the queue or was removed from it by the worker
AcceptedAreQueued ==
    notifier.accepted \subseteq
        Ids(notifier.message_queue) \cup Ids(notifier.saved) \cup notifier.removed

\* the message the worker removed comes before every message it left in the
\* queue: higher priority, or the same priority and not younger
RemovedInPriorityOrder ==
    (notifier.op = "get_next_message" /\ notifier.taken # NoMessage) =>
        \A i \in DOMAIN notifier.rest :
            \/ priority_order(notifier.taken.priority)
                  < priority_order(notifier.rest[i].priority)
            \/ /\ notifier.taken.priority = notifier.rest[i].priority
               /\ notifier.taken.timestamp <= notifier.rest[i].timestamp

\* C26: every message accepted by send_message on an enabled notifier is
\* placed in the queue and stays there until the worker removes it, and the
\* worker removes queued messages in priority order, oldest first among
\* messages of equal priority.
C26_QueuedInPriorityOrder == AcceptedAreQueued /\ RemovedInPriorityOrder

=============================================================================
